---- MODULE Spec2Model ----
(***************************************************************************)
(* EventEmitter of musicbot/lib/event_emitter.py as a state machine.       *)
(*                                                                         *)
(* The registry (_events) is a defaultdict(list): a function from the      *)
(* event names that are keys to lists of callbacks.  emit runs on the      *)
(* single control thread; its synchronous callbacks run in-line and may    *)
(* themselves call on/off/once/emit, so the calls in progress form a       *)
(* stack of emit frames.  Coroutine callbacks become tasks of the event    *)
(* loop, which only runs while no emit is on the stack.                    *)
(*                                                                         *)
(* Callbacks are user code: a synchronous body makes emitter calls of its  *)
(* choice and then returns or raises an Exception; MaxNested bounds the    *)
(* calls that callback bodies make during one emission of the program.     *)
(* Callbacks accept the arguments emit passes on, the loop is open, and    *)
(* what a callback raises is an Exception (what `except Exception`         *)
(* catches), not a bare BaseException such as KeyboardInterrupt.           *)
(***************************************************************************)
EXTENDS Integers, Sequences, FiniteSets, TLC

\* ---------------------------------------------------------------- bounds
\* on/once calls in a behaviour; emitter calls made from callback bodies
\* during one emission of the program; tasks created in a behaviour
MaxReg == 2
MaxNested == 1
MaxTasks == 2

EventNames == {"e1", "e2"}
SyncFns == {"f"}
AsyncFns == {"co"}
Fns == SyncFns \cup AsyncFns

VARIABLES events, task_pool, tasks, batch, stack, nested, nextReg, wr, last

vars == <<events, task_pool, tasks, batch, stack, nested, nextReg, wr, last>>

\* ------------------------------------------------------- callback handles
\* A callback object.  wid = 0: a function the caller holds (fn names it).
\* wid > 0: the closure callback_off made by the wid-th registration, which
\* captured `event` (ev) and `callback` (fn); no caller holds a reference.
Plain(fn) == [fn |-> fn, wid |-> 0, ev |-> "-"]

callback_off(fn, n, e) == [fn |-> fn, wid |-> n, ev |-> e]

\* asyncio.iscoroutinefunction(cb): callback_off is a plain `def`, so a
\* wrapper is never a coroutine function, whatever it wraps.
iscoroutinefunction(h) == h.wid = 0 /\ h.fn \in AsyncFns

\* One position of a callback list: the callback and, as history, the
\* number of the registration (on/once call) that appended it.
Entry(h, n) == [h |-> h, reg |-> n]

\* --------------------------------------------------------------- registry
\* defaultdict.__getitem__: a missing key is inserted with an empty list.
GetItem(ev, e) ==
  IF e \in DOMAIN ev THEN ev
  ELSE [x \in DOMAIN ev \cup {e} |-> IF x = e THEN <<>> ELSE ev[x]]

DelItem(ev, e) == [x \in DOMAIN ev \ {e} |-> ev[x]]

\* Faulty variant of IndexOf: the position of the last entry holding h.
IndexOfLast(list, h) ==
  IF \E i \in 1..Len(list) : list[i].h = h
  THEN CHOOSE i \in 1..Len(list) :
         list[i].h = h /\ \A j \in (i+1)..Len(list) : list[j].h # h
  ELSE 0

\* Faulty variant of Eq: a once-wrapper compares equal to the callback it
\* wraps.
EqUnwrapped(a, b) == a.fn = b.fn

\* == on the registered objects: functions compare by identity, and the
\* callback_off made by once is an object of its own.
Eq(a, b) == a = b

\* list.remove searches by ==: the position of the first entry holding h,
\* 0 if there is none.
IndexOf(list, h) ==
  IF \E i \in 1..Len(list) : Eq(list[i].h, h)
  THEN CHOOSE i \in 1..Len(list) :
         Eq(list[i].h, h) /\ \A j \in 1..(i-1) : ~Eq(list[j].h, h)
  ELSE 0

RemoveAt(list, i) == SubSeq(list, 1, i-1) \o SubSeq(list, i+1, Len(list))

\* Faulty variant of OnEvents: a callback already in the list is not added.
OnEventsDedup(ev, e, en) ==
  IF \E i \in 1..Len(GetItem(ev, e)[e]) : GetItem(ev, e)[e][i].h = en.h
  THEN GetItem(ev, e)
  ELSE [GetItem(ev, e) EXCEPT ![e] = Append(@, en)]

\* Faulty variant of OnEvents: the callback is put at the head of the list.
OnEventsFront(ev, e, en) == [GetItem(ev, e) EXCEPT ![e] = <<en>> \o @]

\* on: self._events[event].append(callback)
OnEvents(ev, e, en) == [GetItem(ev, e) EXCEPT ![e] = Append(@, en)]

\* Faulty variant of OffEvents: a callback that is not found is ignored.
OffEventsSwallow(ev, e, h) ==
  LET d == GetItem(ev, e)
      i == IndexOf(d[e], h)
  IN  IF i = 0 THEN [events |-> d, ok |-> TRUE]
      ELSE LET l == RemoveAt(d[e], i)
           IN  [events |-> IF l = <<>> THEN DelItem(d, e)
                           ELSE [d EXCEPT ![e] = l],
                ok |-> TRUE]

\* Faulty variant of OffEvents: an emptied list keeps its key.
OffEventsKeepKey(ev, e, h) ==
  LET d == GetItem(ev, e)
      i == IndexOf(d[e], h)
  IN  IF i = 0 THEN [events |-> d, ok |-> FALSE]
      ELSE [events |-> [d EXCEPT ![e] = RemoveAt(d[e], i)], ok |-> TRUE]

\* off: self._events[event].remove(callback), then delete an emptied key.
\* The lookup goes through the defaultdict, so the key exists by the time
\* remove raises ValueError; ok = FALSE stands for that raise.
OffEvents(ev, e, h) ==
  LET d == GetItem(ev, e)
      i == IndexOf(d[e], h)
  IN  IF i = 0 THEN [events |-> d, ok |-> FALSE]
      ELSE LET l == RemoveAt(d[e], i)
           IN  [events |-> IF l = <<>> THEN DelItem(d, e)
                           ELSE [d EXCEPT ![e] = l],
                ok |-> TRUE]

\* Faulty variant of EmitLookup: the list is fetched without the membership
\* test, through the defaultdict.
EmitLookupInsert(ev, e) ==
  [events |-> GetItem(ev, e), found |-> e \in DOMAIN ev,
   snap |-> GetItem(ev, e)[e]]

\* emit, lines 31-34: the membership test does not insert a key; the loop
\* walks list(self._events[event]), a copy taken before the first callback.
EmitLookup(ev, e) ==
  IF e \notin DOMAIN ev
  THEN [events |-> ev, found |-> FALSE, snap |-> <<>>]
  ELSE [events |-> ev, found |-> TRUE, snap |-> ev[e]]

\* Faulty variant of IterList: the loop walks the live list.
IterListLive(fr, ev) ==
  IF fr.event \in DOMAIN ev THEN ev[fr.event] ELSE <<>>

\* The list the for-loop of a frame walks: the copy, not the live list.
IterList(fr, ev) == fr.snap

\* Faulty variant of OnException: the exception leaves the loop and emit.
OnExceptionAbort(fr) ==
  [fr EXCEPT !.pc = "loop", !.idx = Len(fr.snap) + 1, !.raised = TRUE,
             !.propagated = TRUE]

\* except Exception: traceback.print_exc() -- the loop goes on to the next
\* callback and emit does not re-raise.
OnException(fr) ==
  [fr EXCEPT !.pc = "loop", !.idx = @ + 1, !.raised = TRUE, !.ran = @ + 1]

\* Faulty variant of create_task: the coroutine is run to its end in-line.
run_until_complete(h) == "done"

\* self.loop.create_task(cb(*args, **kwargs)): the coroutine is queued on the
\* loop and has not run a step when create_task returns.
create_task(h) == "pending"

\* Faulty variant of PoolAdd: the task is not kept.
PoolAddNone(pool, t) == pool

\* self._task_pool.add(t)
PoolAdd(pool, t) == pool \cup {t}

\* ------------------------------------------------------------------ frames
\* A call of emit in progress: its event, its copy of the list, the position
\* of its loop, and whether a callback body is running (pc).  As history:
\* the entries dispatched so far (called), the number of synchronous
\* callbacks that ran to their end, returning or raising (ran), and the
\* tasks this call created (sched).
NewFrame(e, snap) ==
  [event |-> e, snap |-> snap, idx |-> 1, pc |-> "loop", called |-> <<>>,
   raised |-> FALSE, propagated |-> FALSE, ran |-> 0, sched |-> {}]

Top == stack[Len(stack)]

SetTop(fr) == [stack EXCEPT ![Len(stack)] = fr]

\* A call of on/off/once/emit comes from the program (no emit in progress)
\* or from the body of the synchronous callback that is running.
InBody == stack # <<>> /\ Top.pc = "body"

CanCall == stack = <<>> \/ (InBody /\ nested < MaxNested)

Charge == IF stack = <<>> THEN nested ELSE nested + 1

\* The call or step taken last: what it was, and whether it ended without
\* raising to its caller (direct: the caller was the program itself).
Call(op, e, fn, ok) ==
  [op |-> op, event |-> e, fn |-> fn, ok |-> ok, direct |-> stack = <<>>]

\* history kept per once-wrapper: st is "none" (no such wrapper), "armed"
\* (registered, no emit of its event begun since), "first" (the first such
\* emit is in progress, at stack depth `depth`), "after" (it has returned);
\* n counts the times the wrapper called the wrapped callback.
NoWr == [st |-> "none", depth |-> 0, n |-> 0]

ArmedOn(e, ev) ==
  IF e \in DOMAIN ev
  THEN {ev[e][i].h.wid : i \in 1..Len(ev[e])} \ {0}
  ELSE {}

\* ----------------------------------------------------------------- Init
Init ==
  /\ events = [x \in {} |-> <<>>]
  /\ task_pool = {}
  /\ tasks = <<>>
  /\ batch = <<>>
  /\ stack = <<>>
  /\ nested = 0
  /\ nextReg = 1
  /\ wr = [w \in 1..MaxReg |-> NoWr]
  /\ last = Call("init", "-", "-", TRUE)

\* ------------------------------------------------------------ operations
On(e, fn) ==
  /\ CanCall
  /\ nextReg <= MaxReg
  /\ events' = OnEvents(events, e, Entry(Plain(fn), nextReg))
  /\ nextReg' = nextReg + 1
  /\ nested' = Charge
  /\ last' = Call("on", e, fn, TRUE)
  /\ UNCHANGED <<task_pool, tasks, batch, stack, wr>>

Off(e, fn) ==
  /\ CanCall
  /\ LET r == OffEvents(events, e, Plain(fn))
     IN  /\ events' = r.events
         /\ last' = Call("off", e, fn, r.ok)
  /\ nested' = Charge
  /\ UNCHANGED <<task_pool, tasks, batch, stack, nextReg, wr>>

Once(e, fn) ==
  /\ CanCall
  /\ nextReg <= MaxReg
  /\ LET w == callback_off(fn, nextReg, e)
     IN  /\ events' = OnEvents(events, e, Entry(w, nextReg))
         /\ last' = Call("once", e, fn, TRUE)
  /\ wr' = [wr EXCEPT ![nextReg] = [st |-> "armed", depth |-> 0, n |-> 0]]
  /\ nextReg' = nextReg + 1
  /\ nested' = Charge
  /\ UNCHANGED <<task_pool, tasks, batch, stack>>

\* The coroutine callbacks that the emits in progress have yet to schedule,
\* as (frame, position) pairs, and those a list holds.
Unscheduled ==
  {p \in (1..Len(stack)) \X (1..MaxReg) :
     /\ p[2] <= Len(stack[p[1]].snap)
     /\ p[2] >= stack[p[1]].idx + (IF stack[p[1]].pc = "body" THEN 1 ELSE 0)
     /\ iscoroutinefunction(stack[p[1]].snap[p[2]].h)}

Coroutines(list) ==
  {i \in 1..Len(list) : iscoroutinefunction(list[i].h)}

\* MaxTasks is applied where an emit begins, so that no emit stops midway.
TasksFit(list) ==
  Len(tasks) + Cardinality(Unscheduled) + Cardinality(Coroutines(list))
    <= MaxTasks

\* emit up to the start of its loop.  With no key, or an empty list, the
\* call is over at once (EmitReturn is the end of a call that has a loop).
Emit(e) ==
  /\ CanCall
  /\ TasksFit(EmitLookup(events, e).snap)
  /\ nested' = Charge
  /\ LET r == EmitLookup(events, e)
     IN  /\ events' = r.events
         /\ IF r.snap = <<>>
            THEN /\ stack' = stack
                 /\ wr' = wr
            ELSE /\ stack' = Append(stack, NewFrame(e, r.snap))
                 /\ wr' = [w \in DOMAIN wr |->
                            IF w \in ArmedOn(e, events) /\ wr[w].st = "armed"
                            THEN [wr[w] EXCEPT !.st = "first",
                                               !.depth = Len(stack) + 1]
                            ELSE wr[w]]
         /\ last' = Call("emit", e, "-", TRUE)
  /\ UNCHANGED <<task_pool, tasks, batch, nextReg>>

\* the for-loop of the innermost emit: is there a next callback, or is the
\* list it walks exhausted
HasNext ==
  stack # <<>> /\ Top.pc = "loop" /\ Top.idx <= Len(IterList(Top, events))

Finished ==
  stack # <<>> /\ Top.pc = "loop" /\ Top.idx > Len(IterList(Top, events))

Cur == IterList(Top, events)[Top.idx]

\* lines 36-44: a coroutine function is called, wrapped in a task on the
\* loop, and the task is put in the pool.
\* The earliest of a set of tasks: the tasks one emit call schedules are
\* told apart from other calls' tasks by the first task of the call.
FirstOf(S) == CHOOSE t \in S : \A u \in S : t <= u

DispatchAsync ==
  /\ HasNext
  /\ iscoroutinefunction(Cur.h)
  /\ tasks' = Append(tasks, create_task(Cur.h))
  /\ batch' = Append(batch, FirstOf(Top.sched \cup {Len(tasks) + 1}))
  /\ task_pool' = PoolAdd(task_pool, Len(tasks) + 1)
  /\ stack' = SetTop([Top EXCEPT !.idx = @ + 1, !.called = Append(@, Cur),
                                 !.sched = @ \cup {Len(tasks) + 1}])
  /\ last' = Call("schedule", "-", "-", TRUE)
  /\ UNCHANGED <<events, nested, nextReg, wr>>

\* line 46 for a function the caller registered with on: its body starts.
DispatchSync ==
  /\ HasNext
  /\ ~iscoroutinefunction(Cur.h)
  /\ Cur.h.wid = 0
  /\ stack' = SetTop([Top EXCEPT !.pc = "body",
                                 !.called = Append(@, Cur)])
  /\ last' = Call("invoke", "-", "-", TRUE)
  /\ UNCHANGED <<events, task_pool, tasks, batch, nested, nextReg, wr>>

\* Faulty variant of WrapperDelegates: a failed off is ignored.
WrapperDelegatesAlways(r) == TRUE

\* callback_off, lines 76-77: callback is called only when self.off has
\* returned; its ValueError leaves the wrapper before the call.
WrapperDelegates(r) == r.ok

\* Faulty variant of WrapperOff: the wrapper has not deregistered itself by
\* the time it calls the callback.
WrapperOffLater(ev, h) == [events |-> ev, ok |-> TRUE]

\* callback_off, line 76: self.off(event, callback_off), before the call of
\* callback on line 77.
WrapperOff(ev, h) == OffEvents(ev, h.ev, h)

\* line 46 for a once-wrapper, lines 75-77: self.off(event, callback_off),
\* then callback(*args).  A failing off raises out of the wrapper into
\* emit's except.  A wrapped coroutine function only yields a coroutine
\* object, which the wrapper returns and emit drops.
DispatchOnce ==
  /\ HasNext
  /\ ~iscoroutinefunction(Cur.h)
  /\ Cur.h.wid # 0
  /\ LET h  == Cur.h
         r  == WrapperOff(events, h)
         fr == [Top EXCEPT !.called = Append(@, Cur)]
     IN  /\ events' = r.events
         /\ IF ~WrapperDelegates(r)
            THEN /\ stack' = SetTop(OnException(fr))
                 /\ wr' = wr
            ELSE /\ wr' = [wr EXCEPT ![h.wid].n = IF @ < 2 THEN @ + 1 ELSE @]
                 /\ IF h.fn \in AsyncFns
                    THEN stack' = SetTop([fr EXCEPT !.idx = @ + 1,
                                                    !.ran = @ + 1])
                    ELSE stack' = SetTop([fr EXCEPT !.pc = "body"])
         /\ last' = Call("wrapper", "-", "-", r.ok)
  /\ UNCHANGED <<task_pool, tasks, batch, nested, nextReg>>

\* the running synchronous callback returns
CbReturn ==
  /\ InBody
  /\ stack' = SetTop([Top EXCEPT !.pc = "loop", !.idx = @ + 1,
                                 !.ran = @ + 1])
  /\ last' = Call("return", "-", "-", TRUE)
  /\ UNCHANGED <<events, task_pool, tasks, batch, nested, nextReg, wr>>

\* the running synchronous callback raises an Exception
CbRaise ==
  /\ InBody
  /\ stack' = SetTop(OnException(Top))
  /\ last' = Call("raise", "-", "-", FALSE)
  /\ UNCHANGED <<events, task_pool, tasks, batch, nested, nextReg, wr>>

\* the for-loop is exhausted: emit returns to its caller
EmitReturn ==
  /\ Finished
  /\ stack' = SubSeq(stack, 1, Len(stack) - 1)
  /\ wr' = [w \in DOMAIN wr |->
             IF wr[w].st = "first" /\ wr[w].depth = Len(stack)
             THEN [wr[w] EXCEPT !.st = "after", !.depth = 0] ELSE wr[w]]
  /\ nested' = IF Len(stack) = 1 THEN 0 ELSE nested
  /\ last' = [op |-> "emitReturn", event |-> "-", fn |-> "-",
              ok |-> ~Top.propagated, direct |-> Len(stack) = 1]
  /\ UNCHANGED <<events, task_pool, tasks, batch, nextReg>>

\* ---------------------------------------------------------- event loop
\* Tasks start in the order create_task queued them, once the control
\* thread is back in the loop; they finish in any order, returning ("done")
\* or raising ("failed"); the done callback (self._task_pool.discard) runs
\* after the task has finished, and the task object is "gone" once the pool
\* has dropped it.
\* Faulty variant of DoneCallbackFires: only a task that returned is dropped.
DoneCallbackFiresOnSuccess(st) == st = "done"

\* add_done_callback: the callback runs when the task is done, whether it
\* returned or raised.
DoneCallbackFires(st) == st \in {"done", "failed"}

\* Faulty variant of NextToStart: the loop starts pending tasks in any order.
NextToStartAny(ts, t) == TRUE

\* The loop runs the first step of the tasks in the order create_task was
\* called (lines 39-42): task t starts when no earlier task is waiting.
NextToStart(ts, t) == \A u \in 1..(t-1) : ts[u] # "pending"

TaskStart ==
  /\ stack = <<>>
  /\ \E t \in 1..Len(tasks) :
       /\ tasks[t] = "pending"
       /\ NextToStart(tasks, t)
       /\ tasks' = [tasks EXCEPT ![t] = "running"]
       /\ last' = Call("taskStart", "-", "-", TRUE)
  /\ UNCHANGED <<events, task_pool, batch, stack, nested, nextReg, wr>>

TaskFinish(t, ok) ==
  /\ stack = <<>>
  /\ t \in 1..Len(tasks)
  /\ tasks[t] = "running"
  /\ tasks' = [tasks EXCEPT ![t] = IF ok THEN "done" ELSE "failed"]
  /\ last' = Call("taskFinish", "-", "-", ok)
  /\ UNCHANGED <<events, task_pool, batch, stack, nested, nextReg, wr>>

TaskDiscard(t) ==
  /\ stack = <<>>
  /\ t \in 1..Len(tasks)
  /\ DoneCallbackFires(tasks[t])
  /\ t \in task_pool
  /\ task_pool' = task_pool \ {t}
  /\ tasks' = [tasks EXCEPT ![t] = "gone"]
  /\ last' = Call("taskDiscard", "-", "-", tasks[t] = "done")
  /\ UNCHANGED <<events, batch, stack, nested, nextReg, wr>>

Next ==
  \/ \E e \in EventNames, fn \in Fns : On(e, fn)
  \/ \E e \in EventNames, fn \in Fns : Off(e, fn)
  \/ \E e \in EventNames, fn \in Fns : Once(e, fn)
  \/ \E e \in EventNames : Emit(e)
  \/ DispatchAsync
  \/ DispatchSync
  \/ DispatchOnce
  \/ CbReturn
  \/ CbRaise
  \/ EmitReturn
  \/ TaskStart
  \/ \E t \in 1..MaxTasks, ok \in BOOLEAN : TaskFinish(t, ok)
  \/ \E t \in 1..MaxTasks : TaskDiscard(t)

Spec == Init /\ [][Next]_vars

\* A step of an emit in progress.  emit and synchronous callbacks do not
\* suspend: the control thread keeps running them until emit returns.
EmitStep ==
  \/ DispatchAsync
  \/ DispatchSync
  \/ DispatchOnce
  \/ CbReturn
  \/ CbRaise
  \/ EmitReturn

\* The event loop is first-in first-out: whenever the control thread is back
\* in the loop, a queued task step or done callback gets its turn, however
\* often the program emits in between; and coroutines terminate.
FairSpec ==
  /\ Spec
  /\ WF_vars(EmitStep)
  /\ SF_vars(TaskStart)
  /\ \A t \in 1..MaxTasks : SF_vars(\E ok \in BOOLEAN : TaskFinish(t, ok))
  /\ \A t \in 1..MaxTasks : SF_vars(TaskDiscard(t))

\* ------------------------------------------------------------ properties
ListOf(ev, e) == IF e \in DOMAIN ev THEN ev[e] ELSE <<>>

Holds(list, h) == \E i \in 1..Len(list) : list[i].h = h

IsPrefix(s, t) == Len(s) <= Len(t) /\ s = SubSeq(t, 1, Len(s))

\* C1: every event name that is a key of the registry maps to a non-empty
\* callback list, in every reachable state.
C1_KeysNonEmpty == \A e \in DOMAIN events : events[e] # <<>>

\* C2: an off(E, cb) called by the program itself raises to it exactly when
\* cb does not occur in E's list before the call -- E not a key, or E a key
\* whose list lacks cb -- and succeeds exactly when cb occurs in it.
C2_OffRaisesIffAbsent ==
  [][(last'.op = "off" /\ last'.direct)
       => (last'.ok <=> Holds(ListOf(events, last'.event), Plain(last'.fn)))]_vars

\* C2 happens: a direct off has just raised on an event that is registered
\* with callbacks, none of them the one named.
C2_Witness ==
  /\ last.op = "off" /\ last.direct /\ ~last.ok
  /\ ListOf(events, last.event) # <<>>

\* C3: emit(E) for an E without callbacks (no key, or a key with an empty
\* list) does not raise, starts no callback and no task, and leaves the
\* registry and the task pool as they were; it creates no key for E.
C3_EmitWithoutCallbacks ==
  [][(last'.op = "emit" /\ ListOf(events, last'.event) = <<>>)
       => /\ last'.ok
          /\ events' = events
          /\ task_pool' = task_pool
          /\ tasks' = tasks
          /\ stack' = stack]_vars

\* C3 happens: the program has just emitted an event that is no key, while
\* another event is registered, and no emission is in progress.
C3_Witness ==
  /\ last.op = "emit" /\ last.direct /\ stack = <<>>
  /\ last.event \notin DOMAIN events
  /\ DOMAIN events # {}

\* C4: one emit dispatches in the order of E's list at the call, and that
\* order is registration order: in every emit in progress the callbacks
\* dispatched so far are the first ones of the list as it stood at the
\* call, and both run from earlier to later registrations.
Ascending(list) ==
  \A i, j \in 1..Len(list) : i < j => list[i].reg < list[j].reg

C4_RegistrationOrder ==
  /\ \A e \in DOMAIN events : Ascending(events[e])
  /\ \A k \in 1..Len(stack) :
       /\ Ascending(stack[k].called)
       /\ \A i \in 1..Len(stack[k].called) :
            i <= Len(stack[k].snap) /\ stack[k].called[i] = stack[k].snap[i]

\* C4 happens: an emit has dispatched two callbacks, the earlier
\* registration first.
C4_Witness ==
  \E k \in 1..Len(stack) :
    /\ Len(stack[k].called) >= 2
    /\ stack[k].called[1].reg < stack[k].called[2].reg

\* the once-wrappers whose first emit (the first emit of their event begun
\* after the once call) is the innermost emit in progress
FirstEmitOf(w) == wr[w].st = "first" /\ wr[w].depth = Len(stack)

\* C5: after once(E, cb), emits of E invoke cb exactly once, during the
\* first of them; when that first emit returns the wrapper is no longer in
\* E's list, and E is no key of the registry unless it has other callbacks.
C5_OnceThenEmits ==
  [][\A w \in DOMAIN wr :
       /\ wr'[w].n <= 1
       /\ (wr'[w].n # wr[w].n => wr'[w].st = "first")
       /\ (FirstEmitOf(w) /\ wr'[w].st = "after")
            => /\ wr'[w].n = 1
               /\ \A i \in 1..Len(ListOf(events', Top.event)) :
                    ListOf(events', Top.event)[i].h.wid # w
               /\ (Top.event \in DOMAIN events' => events'[Top.event] # <<>>)]_vars

\* The part of C5 about cb alone: the wrapper calls cb at most once, only
\* during its first emit, and by the time that emit has returned it has
\* called cb once and is in no list.
OnceDelegatesOnce ==
  \A w \in DOMAIN wr :
    /\ wr[w].n <= 1
    /\ wr[w].st = "armed" => wr[w].n = 0
    /\ wr[w].st = "after"
         => /\ wr[w].n = 1
            /\ \A e \in DOMAIN events : \A i \in 1..Len(events[e]) :
                 events[e][i].h.wid # w

\* C6: a synchronous callback that raises does not stop the emission: the
\* loop goes on with the callback after it, emit does not raise, and when
\* the loop ends every callback of the snapshot has been dispatched.
C6_RaiseDoesNotStopEmit ==
  /\ \A k \in 1..Len(stack) : ~stack[k].propagated
  /\ (last.op = "emitReturn" => last.ok)
  /\ (last.op = "raise" => Top.pc = "loop" /\ Top.idx = Len(Top.called) + 1)
  /\ (Finished /\ Top.raised) => Top.called = Top.snap

\* C6 happens: in one emit a callback raised and the callback registered
\* after it has been invoked all the same.
C6_Witness ==
  /\ last.op = "invoke"
  /\ Top.raised
  /\ Len(Top.called) >= 2

\* C7: the callbacks one emit dispatches are exactly E's list as it was
\* when emit was called, whatever on/off/once calls the callbacks make on E
\* meanwhile; those calls change the list that later emits copy.
C7_SnapshotIsolation ==
  /\ \A k \in 1..Len(stack) : IsPrefix(stack[k].called, stack[k].snap)
  /\ Finished => Top.called = Top.snap
  /\ (last.op = "emit" /\ stack # <<>> /\ Top.pc = "loop")
       => Top.event = last.event /\ Top.snap = ListOf(events, last.event)

\* C7 happens: an emit has dispatched its whole snapshot although a callback
\* changed the event's list during the pass.
C7_Witness ==
  /\ Finished
  /\ Top.called = Top.snap
  /\ Len(Top.snap) >= 2
  /\ ListOf(events, Top.event) # Top.snap

\* C8: a successful off(E, cb) takes out one entry of E's list, the first
\* that holds cb; the entries before and after it (later occurrences of cb
\* among them) stay in their order, and every other event keeps its list.
C8_OffRemovesFirst ==
  [][(last'.op = "off" /\ last'.ok)
       => LET e   == last'.event
              cb  == Plain(last'.fn)
              old == ListOf(events, e)
              new == ListOf(events', e)
          IN  /\ \E i \in 1..Len(old) :
                   /\ old[i].h = cb
                   /\ \A j \in 1..(i-1) : old[j].h # cb
                   /\ Len(new) = Len(old) - 1
                   /\ \A j \in 1..(i-1) : new[j] = old[j]
                   /\ \A j \in i..Len(new) : new[j] = old[j+1]
              /\ \A x \in EventNames \ {e} :
                   /\ x \in DOMAIN events' <=> x \in DOMAIN events
                   /\ ListOf(events', x) = ListOf(events, x)]_vars

\* C8 happens: an off has succeeded and the callback it named still stands
\* in the event's list, through a later registration.
C8_Witness ==
  /\ last.op = "off" /\ last.ok
  /\ Holds(ListOf(events, last.event), Plain(last.fn))

\* C9: a successful off(E, cb) that removes the only callback of E deletes
\* the key E, so that E is as an event that was never registered.
C9_OffDeletesEmptiedKey ==
  [][(last'.op = "off" /\ last'.ok /\ Len(ListOf(events, last'.event)) = 1)
       => last'.event \notin DOMAIN events']_vars

\* C9 happens: the program's off has succeeded and left the event without
\* a key.
C9_Witness ==
  /\ last.op = "off" /\ last.ok /\ last.direct
  /\ last.event \notin DOMAIN events

\* C10: a task that emit scheduled and that has not completed is in the
\* task pool, in every state, also after emit has returned; on, off and
\* once leave the pool as it is.
Scheduled == {t \in 1..Len(tasks) : tasks[t] \in {"pending", "running"}}

C10_PoolHoldsLiveTasks ==
  /\ [](Scheduled \subseteq task_pool)
  /\ [][last'.op \in {"on", "off", "once"} => task_pool' = task_pool]_vars

\* C10 happens: emit has returned to the program and a task it scheduled,
\* not yet started, is in the pool.
C10_Witness ==
  /\ last.op = "emitReturn" /\ last.direct
  /\ \E t \in task_pool : tasks[t] = "pending"

\* C11: a task in the pool is eventually removed from it for good, whether
\* its callback returns or raises, so that the pool empties once no more
\* tasks are scheduled; and no emit fails, whatever its tasks do later.
C11_PoolEventuallyDrops ==
  /\ \A t \in 1..MaxTasks : (t \in task_pool) ~> [](t \notin task_pool)
  /\ [](last.op = "emitReturn" => last.ok)
  /\ [](last.op = "taskFinish" => stack = <<>>)

\* C11 happens: a task whose callback raised has just been dropped from the
\* pool, which is empty, after the emit that scheduled it returned.
C11_Witness ==
  /\ last.op = "taskDiscard" /\ ~last.ok
  /\ task_pool = {}
  /\ \E t \in 1..Len(tasks) : tasks[t] = "gone"

\* C12: when emit returns, every synchronous callback of its snapshot has
\* run to its end, returning or raising, and no task that this emit created
\* has finished, or even started: emit does not wait for its coroutines.
C12_SyncDoneAsyncPending ==
  /\ \A k \in 1..Len(stack) : \A t \in stack[k].sched : tasks[t] = "pending"
  /\ Finished
       => /\ Top.ran + Cardinality(Coroutines(Top.snap)) = Len(Top.snap)
          /\ Cardinality(Top.sched) = Cardinality(Coroutines(Top.snap))

\* C12 happens: an emit of the program is about to return, having run a
\* synchronous callback to its end and queued a coroutine that has not run.
C12_Witness ==
  /\ Finished /\ Len(stack) = 1
  /\ Top.ran >= 1
  /\ \E t \in Top.sched : tasks[t] = "pending"

\* C13: on does not deduplicate: each on(E, cb) adds one entry for cb at the
\* end of E's list, whether or not cb is in it already, and one emit(E)
\* dispatches cb once for each entry that its list holds.
Count(list, h) == Cardinality({i \in 1..Len(list) : list[i].h = h})

C13_NoDeduplication ==
  /\ [][last'.op = "on"
          => LET old == ListOf(events, last'.event)
                 new == ListOf(events', last'.event)
             IN  /\ Len(new) = Len(old) + 1
                 /\ SubSeq(new, 1, Len(old)) = old
                 /\ new[Len(new)].h = Plain(last'.fn)]_vars
  /\ [](Finished
          => \A fn \in Fns :
               Count(Top.called, Plain(fn)) = Count(Top.snap, Plain(fn)))

\* C13 happens: an emit has gone through a list that holds the same
\* callback twice and has dispatched it twice.
C13_Witness ==
  /\ Finished
  /\ \E fn \in Fns : Count(Top.snap, Plain(fn)) = 2
                       /\ Count(Top.called, Plain(fn)) = 2

\* C14: with re-entrant emission on the one control thread, a callback
\* registered with once is called at most once by its wrapper: when an outer
\* pass invokes the wrapper again from its stale snapshot, the wrapper's
\* off fails and the wrapper raises without calling the callback.
LastCalled == Top.called[Len(Top.called)].h

C14_ReentrantOnce ==
  /\ \A w \in DOMAIN wr : wr[w].n <= 1
  /\ (last.op = "wrapper" /\ ~last.ok)
       => Top.pc = "loop" /\ Top.raised /\ Top.idx = Len(Top.called) + 1

\* C14 happens: an outer pass, resumed after a callback's nested emit of the
\* same event returned, has invoked from its snapshot a wrapper that the
\* nested emit had already run, and the wrapper did not call the callback.
C14_Witness ==
  /\ last.op = "wrapper" /\ ~last.ok
  /\ Len(stack) = 1
  /\ LastCalled.wid # 0
  /\ LastCalled.ev = Top.event
  /\ LastCalled.fn \in SyncFns
  /\ wr[LastCalled.wid].n = 1
  /\ wr[LastCalled.wid].st = "first"

\* C15: the once-wrapper deregisters itself before it calls the callback:
\* while the callback runs, and ever after (whether it returns, raises or
\* emits the event from inside itself), the wrapper is in no list, so no
\* emit begun from then on has it in its snapshot.
InSomeList(w) ==
  \E e \in DOMAIN events : \E i \in 1..Len(events[e]) : events[e][i].h.wid = w

Running(k) == stack[k].called[Len(stack[k].called)].h

C15_OffBeforeDelegate ==
  /\ \A k \in 1..Len(stack) :
       (stack[k].pc = "body" /\ Running(k).wid # 0)
         => ~InSomeList(Running(k).wid)
  /\ \A w \in DOMAIN wr : wr[w].n >= 1 => ~InSomeList(w)
  /\ (last.op = "emit" /\ stack # <<>> /\ Top.pc = "loop")
       => \A i \in 1..Len(Top.snap) :
            Top.snap[i].h.wid # 0 => wr[Top.snap[i].h.wid].n = 0

\* C15 happens: a callback running through its once-wrapper has emitted the
\* wrapper's event from inside itself, and that emit did not come back to it.
C15_Witness ==
  /\ Len(stack) = 1 /\ Top.pc = "body"
  /\ Running(1).wid # 0
  /\ last.op = "emit" /\ last.event = Top.event /\ ~last.direct
  /\ wr[Running(1).wid].n = 1

\* C16: among the tasks one emit call schedules, the tasks begin running in
\* the order they were scheduled, which is the order of the snapshot: a task
\* has not begun while an earlier task of the same call is still waiting.
\* The order of completion is free (C16_Witness: a later task of the call
\* has completed while an earlier one is still running).
SameEmit(t, u) == batch[t] = batch[u]

C16_StartOrder ==
  /\ Len(batch) = Len(tasks)
  /\ \A k \in 1..Len(stack) : \A t \in stack[k].sched :
       batch[t] = FirstOf(stack[k].sched)
  /\ \A t, u \in 1..Len(tasks) :
       (t < u /\ SameEmit(t, u) /\ tasks[u] # "pending")
         => tasks[t] # "pending"

C16_Witness ==
  \E t, u \in 1..Len(tasks) :
    /\ t < u /\ SameEmit(t, u)
    /\ tasks[t] = "running"
    /\ tasks[u] \in {"done", "failed", "gone"}

\* C17: when the first emit of an event comes to the once-wrapper of a
\* coroutine function, that step schedules the coroutine function as a new
\* task (waiting to run) and puts the task into the in-flight set.
C17_OnceSchedulesAsync ==
  [][(/\ last'.op = "wrapper" /\ last'.ok
      /\ LastCalled'.fn \in AsyncFns)
       => /\ tasks' = Append(tasks, "pending")
          /\ task_pool' = task_pool \cup {Len(tasks')}]_vars

\* C18: an off that fails (the callback is not registered under the event)
\* leaves the emitter as it was: the same keys with the same lists, and the
\* same in-flight set.
C18_FailedOffChangesNothing ==
  [][(last'.op = "off" /\ ~last'.ok)
       => /\ events' = events
          /\ task_pool' = task_pool]_vars

\* C19: off with the original callback never removes a once-wrapper: a
\* wrapper registered by once stays in its event's list until the first emit
\* of the event, whatever off calls come in between, and by the end of that
\* emit it has called the callback.
C19_OffKeepsWrapper ==
  \A w \in DOMAIN wr :
    /\ wr[w].st = "armed" => InSomeList(w)
    /\ (Finished /\ FirstEmitOf(w)) => wr[w].n = 1

\* C19 happens: off(E, cb) has just been called, with either outcome, while
\* the wrapper of once(E, cb) waits for the first emit of E.
C19_Witness ==
  /\ last.op = "off" /\ last.direct
  /\ last.event \in DOMAIN events
  /\ \E i \in 1..Len(events[last.event]) :
       LET h == events[last.event][i].h
       IN  h.wid # 0 /\ h.fn = last.fn /\ wr[h.wid].st = "armed"

====
